---------------------------- MODULE Spec2Model ----------------------------
(***************************************************************************)
(* CL-Ops common layer (clo_common.h): the OpenCL type registry with its   *)
(* lookups, the CLO_ALG_GET prefix scan, the CLO_DIV_CEIL / CLO_GWS_MULT   *)
(* work-size macros and the 32-bit bit primitives clo_nlpo2, clo_ones32    *)
(* and clo_tzc.                                                            *)
(*                                                                         *)
(* C strings are sequences of one-character strings; a null pointer is     *)
(* NULL.  An unsigned int is a pair <<hi, lo>> of 16-bit halves, so that   *)
(* all arithmetic keeps its 32-bit width.                                  *)
(***************************************************************************)
EXTENDS Integers, Sequences, FiniteSets

VARIABLES clo_types, op, arg, ret, err

vars == <<clo_types, op, arg, ret, err>>

(***************************** bounds **************************************)
\* Longest qualifier appended to a type name in a kind_by_name request.
MaxQualLen == 2
\* How far outside 0..10 a requested CloType value may lie.
MaxKindSlack == 3
\* Longest tag of the vectors and requests handed to CLO_ALG_GET.
MaxTagLen == 2
\* Most entries before the terminator of a vector handed to CLO_ALG_GET.
MaxVecLen == 2
\* Work sizes are taken from 0..MaxGws and from the MaxGws+1 largest values.
MaxGws == 12
\* Largest local work size.
MaxLws == 6
\* Bit-primitive arguments are m * 2^k (and their complements), m <= MaxMant.
MaxMant == 5

(***************************** error codes *********************************)
CLO_SUCCESS == 0
CLO_ERROR_UNKNOWN_TYPE == 6

(***************************** CloType *************************************)
CLO_CHAR == 0
CLO_UCHAR == 1
CLO_SHORT == 2
CLO_USHORT == 3
CLO_INT == 4
CLO_UINT == 5
CLO_LONG == 6
CLO_ULONG == 7
CLO_HALF == 8
CLO_FLOAT == 9
CLO_DOUBLE == 10

(***************************** strings *************************************)
\* The null pointer, as a value no C string equals.
NULL == <<"(null)">>

\* g_str_has_prefix without the length test: only the characters both
\* strings have are compared.
g_str_has_prefix_NoLength(str, prefix) ==
    /\ str # NULL
    /\ prefix # NULL
    /\ \A n \in 1..Len(prefix) : n <= Len(str) => str[n] = prefix[n]

\* glib's g_str_has_prefix(str, prefix): str begins with prefix.
g_str_has_prefix(str, prefix) ==
    /\ str # NULL
    /\ prefix # NULL
    /\ Len(prefix) <= Len(str)
    /\ \A n \in 1..Len(prefix) : str[n] = prefix[n]

(***************************** CLO_ALG_GET *********************************)
\* The scan with one change, `how`, made to the macro:
\*   "exact"   the tag must equal arg_tag (g_strcmp0 in place of the prefix test)
\*   "swapped" the arguments of g_str_has_prefix exchanged
\*   "skip"    the index starts at 1
\*   "nobreak" no break after the assignment
\*   "store"   the assignment reversed: info_v[i] = info
RECURSIVE AlgGetChanged(_, _, _, _, _, _, _)
AlgGetChanged(how, i___priv, info, info_v, arg_tag, visited, assigns) ==
    LET tag == info_v[i___priv + 1].tag
        hit == CASE how = "exact" -> arg_tag = tag
                 [] how = "swapped" -> g_str_has_prefix(tag, arg_tag)
                 [] OTHER -> g_str_has_prefix(arg_tag, tag)
        seen == Append(visited, i___priv)
    IN  IF tag = NULL
        THEN [info |-> info, info_v |-> info_v,
              visited |-> seen, assigns |-> assigns]
        ELSE IF ~hit
        THEN AlgGetChanged(how, i___priv + 1, info, info_v, arg_tag,
                           seen, assigns)
        ELSE IF how = "nobreak"
        THEN AlgGetChanged(how, i___priv + 1, info_v[i___priv + 1], info_v,
                           arg_tag, seen, assigns + 1)
        ELSE IF how = "store"
        THEN [info |-> info,
              info_v |-> [info_v EXCEPT ![i___priv + 1] = info],
              visited |-> seen, assigns |-> assigns]
        ELSE [info |-> info_v[i___priv + 1], info_v |-> info_v,
              visited |-> seen, assigns |-> assigns + 1]

CLO_ALG_GET_Exact(info, info_v, arg_tag) ==
    AlgGetChanged("exact", 0, info, info_v, arg_tag, <<>>, 0)

CLO_ALG_GET_Swapped(info, info_v, arg_tag) ==
    AlgGetChanged("swapped", 0, info, info_v, arg_tag, <<>>, 0)

CLO_ALG_GET_SkipFirst(info, info_v, arg_tag) ==
    AlgGetChanged("skip", 1, info, info_v, arg_tag, <<>>, 0)

CLO_ALG_GET_NoBreak(info, info_v, arg_tag) ==
    AlgGetChanged("nobreak", 0, info, info_v, arg_tag, <<>>, 0)

CLO_ALG_GET_Store(info, info_v, arg_tag) ==
    AlgGetChanged("store", 0, info, info_v, arg_tag, <<>>, 0)

\* The loop of the macro from index i___priv on.  `visited` lists the
\* indices whose tag was read, `assigns` counts the assignments to info.
RECURSIVE AlgGetLoop(_, _, _, _, _, _)
AlgGetLoop(i___priv, info, info_v, arg_tag, visited, assigns) ==
    IF info_v[i___priv + 1].tag = NULL
    THEN [info |-> info, info_v |-> info_v,
          visited |-> Append(visited, i___priv), assigns |-> assigns]
    ELSE IF g_str_has_prefix(arg_tag, info_v[i___priv + 1].tag)
         THEN [info |-> info_v[i___priv + 1], info_v |-> info_v,
               visited |-> Append(visited, i___priv), assigns |-> assigns + 1]
         ELSE AlgGetLoop(i___priv + 1, info, info_v, arg_tag,
                         Append(visited, i___priv), assigns)

CLO_ALG_GET(info, info_v, arg_tag) ==
    AlgGetLoop(0, info, info_v, arg_tag, <<>>, 0)

(***************************** type registry *******************************)
\* The descriptor table, one entry per CloType in enum order, closed by an
\* entry with a null name.
clo_types_table ==
    << [tag |-> <<"c","h","a","r">>,         kind |-> CLO_CHAR,   size |-> 1],
       [tag |-> <<"u","c","h","a","r">>,     kind |-> CLO_UCHAR,  size |-> 1],
       [tag |-> <<"s","h","o","r","t">>,     kind |-> CLO_SHORT,  size |-> 2],
       [tag |-> <<"u","s","h","o","r","t">>, kind |-> CLO_USHORT, size |-> 2],
       [tag |-> <<"i","n","t">>,             kind |-> CLO_INT,    size |-> 4],
       [tag |-> <<"u","i","n","t">>,         kind |-> CLO_UINT,   size |-> 4],
       [tag |-> <<"l","o","n","g">>,         kind |-> CLO_LONG,   size |-> 8],
       [tag |-> <<"u","l","o","n","g">>,     kind |-> CLO_ULONG,  size |-> 8],
       [tag |-> <<"h","a","l","f">>,         kind |-> CLO_HALF,   size |-> 2],
       [tag |-> <<"f","l","o","a","t">>,     kind |-> CLO_FLOAT,  size |-> 4],
       [tag |-> <<"d","o","u","b","l","e">>, kind |-> CLO_DOUBLE, size |-> 8],
       [tag |-> NULL,                        kind |-> -1,         size |-> 0] >>

\* The descriptor a lookup starts from: nothing found yet.
NoInfo == [tag |-> NULL, kind |-> -1, size |-> 0]

IsCloType(type) == type >= CLO_CHAR /\ type <= CLO_DOUBLE

\* clo_type_get_name(type, err): [ret, err].
clo_type_get_name(types, type) ==
    IF IsCloType(type)
    THEN [ret |-> types[type + 1].tag, err |-> CLO_SUCCESS]
    ELSE [ret |-> NULL, err |-> CLO_ERROR_UNKNOWN_TYPE]

\* clo_type_sizeof reading the entry after the one asked for.
clo_type_sizeof_NextEntry(types, type) ==
    IF IsCloType(type)
    THEN [ret |-> types[type + 2].size, err |-> CLO_SUCCESS]
    ELSE [ret |-> 0, err |-> CLO_ERROR_UNKNOWN_TYPE]

\* clo_type_sizeof(type, err): [ret, err].
clo_type_sizeof(types, type) ==
    IF IsCloType(type)
    THEN [ret |-> types[type + 1].size, err |-> CLO_SUCCESS]
    ELSE [ret |-> 0, err |-> CLO_ERROR_UNKNOWN_TYPE]

\* clo_type_by_name(name, err): the prefix scan over the table;
\* [ret, err, types], types being the table after the scan.
clo_type_by_name(types, name) ==
    LET got == CLO_ALG_GET(NoInfo, types, name)
    IN  IF got.info.tag = NULL
        THEN [ret |-> -1, err |-> CLO_ERROR_UNKNOWN_TYPE, types |-> got.info_v]
        ELSE [ret |-> got.info.kind, err |-> CLO_SUCCESS, types |-> got.info_v]

(***************************** requests ************************************)
RECURSIVE StringsUpTo(_, _)
StringsUpTo(chars, n) ==
    IF n = 0 THEN {<<>>}
    ELSE LET shorter == StringsUpTo(chars, n - 1)
         IN  shorter \cup {Append(s, c) : s \in shorter, c \in chars}

TypeNames == {clo_types_table[i].tag : i \in 1..11}

Prefixes(s) == {SubSeq(s, 1, n) : n \in 0..Len(s)}

IsPrefixOf(p, s) == p \in Prefixes(s)

QualChars == {"4", "_"}

\* The strings a caller passes to kind_by_name: every type name, every
\* prefix of one, every name with a qualifier after it or a character
\* before it.
NameRequests ==
    UNION {Prefixes(s) : s \in TypeNames}
    \cup {s \o q : s \in TypeNames, q \in StringsUpTo(QualChars, MaxQualLen)}
    \cup {<<"x">> \o s : s \in TypeNames}

KindRequests == (CLO_CHAR - MaxKindSlack)..(CLO_DOUBLE + MaxKindSlack)

(***************************** registry actions ****************************)
Init ==
    /\ clo_types = clo_types_table
    /\ op = "init"
    /\ arg = <<>>
    /\ ret = <<>>
    /\ err = CLO_SUCCESS

NameOf ==
    \E type \in KindRequests :
        LET r == clo_type_get_name(clo_types, type)
        IN  /\ op' = "name_of"
            /\ arg' = type
            /\ ret' = r.ret
            /\ err' = r.err
            /\ UNCHANGED clo_types

SizeOf ==
    \E type \in KindRequests :
        LET r == clo_type_sizeof(clo_types, type)
        IN  /\ op' = "size_of"
            /\ arg' = type
            /\ ret' = r.ret
            /\ err' = r.err
            /\ UNCHANGED clo_types

KindByName ==
    \E name \in NameRequests :
        LET r == clo_type_by_name(clo_types, name)
        IN  /\ op' = "kind_by_name"
            /\ arg' = name
            /\ ret' = r.ret
            /\ err' = r.err
            /\ clo_types' = r.types

NextRegistry == NameOf \/ SizeOf \/ KindByName

SpecRegistry == Init /\ [][NextRegistry]_vars

(***************************** registry properties *************************)
\* The kinds whose name is a prefix of s.
Matching(s) == {k \in CLO_CHAR..CLO_DOUBLE : IsPrefixOf(clo_types_table[k + 1].tag, s)}

\* The kinds whose name s is a proper prefix of.
ProperPrefixOf(s) ==
    {k \in CLO_CHAR..CLO_DOUBLE :
        /\ IsPrefixOf(s, clo_types_table[k + 1].tag)
        /\ s # clo_types_table[k + 1].tag}

\* C2: kind_by_name returns the kind of the entry earliest in declaration
\* order whose name is a prefix of the request, never a later one, and
\* fails exactly when no name is a prefix of it.
KindByNameFirstMatch ==
    op = "kind_by_name" =>
        IF Matching(arg) = {}
        THEN err = CLO_ERROR_UNKNOWN_TYPE
        ELSE /\ err = CLO_SUCCESS
             /\ ret \in Matching(arg)
             /\ \A k \in Matching(arg) : ret <= k

KindByNameFirstMatchWitness ==
    /\ op = "kind_by_name"
    /\ arg = <<"u","i","n","t","4">>
    /\ ret = CLO_UINT
    /\ err = CLO_SUCCESS

\* C3: for each of the 11 kinds, the name name_of returns is mapped back to
\* that kind by kind_by_name, and no earlier entry's name is a prefix of it.
NameRoundTrip ==
    op = "name_of" /\ IsCloType(arg) =>
        /\ err = CLO_SUCCESS
        /\ clo_type_by_name(clo_types, ret).err = CLO_SUCCESS
        /\ clo_type_by_name(clo_types, ret).ret = arg
        /\ \A k \in CLO_CHAR..(arg - 1) :
              ~IsPrefixOf(clo_types[k + 1].tag, ret)

NameRoundTripWitness ==
    /\ op = "name_of"
    /\ arg = CLO_CHAR
    /\ ret = <<"c","h","a","r">>
    /\ clo_type_by_name(clo_types, ret).ret = CLO_CHAR

\* C4: a lookup reports CLO_ERROR_UNKNOWN_TYPE exactly when its kind is
\* outside the 11 values or no registry name is a prefix of its string, and
\* reports success, with the entry's own value, exactly otherwise.
UnknownTypeExactly ==
    /\ op \in {"name_of", "size_of"} =>
          /\ err \in {CLO_SUCCESS, CLO_ERROR_UNKNOWN_TYPE}
          /\ err = CLO_ERROR_UNKNOWN_TYPE <=> arg \notin CLO_CHAR..CLO_DOUBLE
    /\ op = "name_of" /\ err = CLO_SUCCESS => ret = clo_types_table[arg + 1].tag
    /\ op = "size_of" /\ err = CLO_SUCCESS => ret = clo_types_table[arg + 1].size
    /\ op = "kind_by_name" =>
          /\ err \in {CLO_SUCCESS, CLO_ERROR_UNKNOWN_TYPE}
          /\ err = CLO_ERROR_UNKNOWN_TYPE <=> Matching(arg) = {}
          /\ err = CLO_SUCCESS => ret \in Matching(arg)

UnknownTypeWitness ==
    /\ op = "kind_by_name"
    /\ arg = <<"i","n">>
    /\ err = CLO_ERROR_UNKNOWN_TYPE

\* C5, as stated: a request that is a proper prefix of exactly one
\* registered name succeeds with that name's kind.
ProperPrefixSucceeds ==
    op = "kind_by_name" /\ Cardinality(ProperPrefixOf(arg)) = 1 =>
        err = CLO_SUCCESS /\ ret \in ProperPrefixOf(arg)

\* C5, amended: a request that has exactly one registered name as a prefix
\* succeeds with that name's kind, and a request that is a proper prefix of
\* a registered name fails with CLO_ERROR_UNKNOWN_TYPE.
NameIsPrefixOfRequest ==
    /\ op = "kind_by_name" /\ Cardinality(Matching(arg)) = 1 =>
          err = CLO_SUCCESS /\ ret \in Matching(arg)
    /\ op = "kind_by_name" /\ ProperPrefixOf(arg) # {} =>
          err = CLO_ERROR_UNKNOWN_TYPE

NameIsPrefixOfRequestWitness ==
    /\ op = "kind_by_name"
    /\ arg = <<"d","o","u","b","l","e","_","4">>
    /\ Cardinality(Matching(arg)) = 1
    /\ ret = CLO_DOUBLE

\* C6: size_of gives 1, 1, 2, 2, 4, 4, 8, 8, 2, 4, 8 for the kinds 0..10,
\* and the registry holds exactly one descriptor per kind.
SizeTable ==
    /\ op = "size_of" /\ IsCloType(arg) =>
          err = CLO_SUCCESS /\ ret = <<1, 1, 2, 2, 4, 4, 8, 8, 2, 4, 8>>[arg + 1]
    /\ \A k \in CLO_CHAR..CLO_DOUBLE :
          Cardinality({i \in 1..Len(clo_types) : clo_types[i].kind = k}) = 1

SizeTableWitness ==
    /\ op = "size_of"
    /\ arg = CLO_HALF
    /\ ret = 2

\* C7: after any sequence of lookups, successful or failing, the registry
\* table holds its initial contents.
RegistryUnchanged == clo_types = clo_types_table

RegistryUnchangedWitness ==
    /\ op = "kind_by_name"
    /\ err = CLO_SUCCESS
    /\ clo_types = clo_types_table

(***************************** CLO_ALG_GET requests ************************)
TagChars == {"a", "b"}

Tags == StringsUpTo(TagChars, MaxTagLen)

RECURSIVE TagVectors(_)
TagVectors(n) ==
    IF n = 0 THEN {<<>>}
    ELSE LET shorter == TagVectors(n - 1)
         IN  shorter \cup {Append(v, t) : v \in shorter, t \in Tags \cup {NULL}}

\* A vector of entries with the given tags, closed by a null-tag entry.
InfoVector(tags) ==
    [i \in 1..(Len(tags) + 1) |->
        IF i <= Len(tags) THEN [tag |-> tags[i], kind |-> i - 1, size |-> 0]
        ELSE [tag |-> NULL, kind |-> -1, size |-> 0]]

\* What `info` may hold before the scan: nothing, or an earlier result.
EarlierInfo == [tag |-> <<"z">>, kind |-> 99, size |-> 0]

AlgGetRequests ==
    [info : {NoInfo, EarlierInfo},
     info_v : {InfoVector(v) : v \in TagVectors(MaxVecLen)},
     arg_tag : Tags]

InitAlgGet ==
    /\ clo_types = clo_types_table
    /\ op = "request"
    /\ arg \in AlgGetRequests
    /\ ret = <<>>
    /\ err = CLO_SUCCESS

AlgGet ==
    /\ op = "request"
    /\ op' = "alg_get"
    /\ ret' = CLO_ALG_GET(arg.info, arg.info_v, arg.arg_tag)
    /\ UNCHANGED <<clo_types, arg, err>>

NextAlgGet == AlgGet

SpecAlgGet == InitAlgGet /\ [][NextAlgGet]_vars

(***************************** CLO_ALG_GET properties **********************)
\* Index of the first null tag of a vector.
Terminator(info_v) ==
    CHOOSE i \in 0..(Len(info_v) - 1) :
        /\ info_v[i + 1].tag = NULL
        /\ \A j \in 0..(i - 1) : info_v[j + 1].tag # NULL

\* Indices before the terminator whose tag is a prefix of arg_tag.
Hits(info_v, arg_tag) ==
    {i \in 0..(Terminator(info_v) - 1) : IsPrefixOf(info_v[i + 1].tag, arg_tag)}

StopIndex(info_v, arg_tag) ==
    IF Hits(info_v, arg_tag) = {} THEN Terminator(info_v)
    ELSE CHOOSE i \in Hits(info_v, arg_tag) :
            \A j \in Hits(info_v, arg_tag) : i <= j

\* C10: the scan reads the tags in index order up to the first entry whose
\* tag is a prefix of arg_tag, or up to the terminator; it assigns info at
\* most once, the first such entry; with no such entry info is as before.
AlgGetScan ==
    op = "alg_get" =>
        LET stop == StopIndex(arg.info_v, arg.arg_tag)
            hits == Hits(arg.info_v, arg.arg_tag)
        IN  /\ ret.visited = [k \in 1..(stop + 1) |-> k - 1]
            /\ ret.assigns <= 1
            /\ hits # {} => ret.assigns = 1 /\ ret.info = arg.info_v[stop + 1]
            /\ hits = {} => ret.assigns = 0 /\ ret.info = arg.info
            /\ ret.info_v = arg.info_v
            /\ err = CLO_SUCCESS

AlgGetScanWitness ==
    /\ op = "alg_get"
    /\ Cardinality(Hits(arg.info_v, arg.arg_tag)) = 2
    /\ arg.info = EarlierInfo
    /\ ret.info = arg.info_v[1]
    /\ ret.visited = <<0>>

(***************************** unsigned int ********************************)
\* A 32-bit unsigned value is <<hi, lo>>, hi and lo in 0..2^16-1.
Half == 2 ^ 16

Zero32 == <<0, 0>>
One32 == <<0, 1>>

Add32(a, b) ==
    LET lo == a[2] + b[2]
    IN  <<(a[1] + b[1] + lo \div Half) % Half, lo % Half>>

Not32(a) == <<Half - 1 - a[1], Half - 1 - a[2]>>

Neg32(a) == Add32(Not32(a), One32)

Sub32(a, b) == Add32(a, Neg32(b))

Lt32(a, b) == a[1] < b[1] \/ (a[1] = b[1] /\ a[2] < b[2])

Le32(a, b) == a = b \/ Lt32(a, b)

\* a >> n, n in 0..31.
Shr32(a, n) ==
    IF n >= 16 THEN <<0, a[1] \div 2 ^ (n - 16)>>
    ELSE <<a[1] \div 2 ^ n, a[2] \div 2 ^ n + (a[1] % 2 ^ n) * 2 ^ (16 - n)>>

\* a << n, n in 0..31.
Shl32(a, n) ==
    IF n >= 16 THEN <<(a[2] * 2 ^ (n - 16)) % Half, 0>>
    ELSE <<(a[1] * 2 ^ n + a[2] \div 2 ^ (16 - n)) % Half, (a[2] * 2 ^ n) % Half>>

RECURSIVE And16(_, _)
And16(x, y) ==
    IF x = 0 \/ y = 0 THEN 0
    ELSE 2 * And16(x \div 2, y \div 2) + (x % 2) * (y % 2)

And32(a, b) == <<And16(a[1], b[1]), And16(a[2], b[2])>>

\* a | b = ~(~a & ~b)
Or32(a, b) == Not32(And32(Not32(a), Not32(b)))

\* The product of two 16-bit values, as a 32-bit value.
MulHalf(x, y) ==
    LET p0 == x * (y % 256)
        p1 == x * (y \div 256)
    IN  Add32(<<p0 \div Half, p0 % Half>>, <<p1 \div 256, (p1 % 256) * 256>>)

\* a * b, truncated to 32 bits.
Mul32(a, b) ==
    LET low == MulHalf(a[2], b[2])
        cross == MulHalf(a[2], b[1])[2] + MulHalf(a[1], b[2])[2]
    IN  <<(low[1] + cross) % Half, low[2]>>

\* Quotient and remainder of a by b, for b >= 2^15, by shift and subtract.
RECURSIVE DivModLarge(_, _)
DivModLarge(a, b) ==
    IF Lt32(a, b) THEN [q |-> Zero32, r |-> a]
    ELSE IF b[1] >= Half \div 2 THEN [q |-> One32, r |-> Sub32(a, b)]
    ELSE LET d == DivModLarge(a, Shl32(b, 1))
         IN  IF Lt32(d.r, b) THEN [q |-> Shl32(d.q, 1), r |-> d.r]
             ELSE [q |-> Add32(Shl32(d.q, 1), One32), r |-> Sub32(d.r, b)]

\* Quotient and remainder of a by b, b # 0: long division by halves when
\* b <= 2^15, shift and subtract otherwise.
DivMod32(a, b) ==
    IF b[1] = 0 /\ b[2] <= Half \div 2
    THEN LET t == (a[1] % b[2]) * Half + a[2]
         IN  [q |-> <<a[1] \div b[2], t \div b[2]>>, r |-> <<0, t % b[2]>>]
    ELSE DivModLarge(a, b)

Div32(a, b) == DivMod32(a, b).q

Mod32(a, b) == DivMod32(a, b).r

(***************************** work-size macros ****************************)
\* ((a + b - 1) / b) on unsigned int operands.
CLO_DIV_CEIL(a, b) == Div32(Sub32(Add32(a, b), One32), b)

\* (lws * CLO_DIV_CEIL(gws, lws))
CLO_GWS_MULT(gws, lws) == Mul32(lws, CLO_DIV_CEIL(gws, lws))

(***************************** bit primitives ******************************)
\* x |= x >> 1; x |= x >> 2; x |= x >> 4; x |= x >> 8; x |= x >> 16; x + 1
clo_nlpo2(x) ==
    LET x1 == Or32(x, Shr32(x, 1))
        x2 == Or32(x1, Shr32(x1, 2))
        x4 == Or32(x2, Shr32(x2, 4))
        x8 == Or32(x4, Shr32(x4, 8))
        x16 == Or32(x8, Shr32(x8, 16))
    IN  Add32(x16, One32)

\* Pairwise sums folded across 2-, 4-, 8- and 16-bit groups.
clo_ones32(x) ==
    LET m5 == <<21845, 21845>>
        m3 == <<13107, 13107>>
        mf == <<3855, 3855>>
        x1 == Sub32(x, And32(Shr32(x, 1), m5))
        x2 == Add32(And32(Shr32(x1, 2), m3), And32(x1, m3))
        x4 == And32(Add32(Shr32(x2, 4), x2), mf)
        x8 == Add32(x4, Shr32(x4, 8))
        x16 == Add32(x8, Shr32(x8, 16))
    IN  And32(x16, <<0, 63>>)

\* clo_tzc counting the ones of the lowest set bit itself.
clo_tzc_NoDecrement(x) == clo_ones32(And32(x, Neg32(x)))

\* The ones below the lowest set bit: ones32((x & -x) - 1).
clo_tzc(x) == clo_ones32(Sub32(And32(x, Neg32(x)), One32))

(***************************** arithmetic requests *************************)
\* 0..MaxGws and the MaxGws+1 largest unsigned values.
GwsRequests ==
    {<<0, g>> : g \in 0..MaxGws} \cup {Not32(<<0, g>>) : g \in 0..MaxGws}

LwsRequests == {<<0, l>> : l \in 1..MaxLws}

\* m * 2^k, truncated to 32 bits, and the complements of these.
WordRequests ==
    LET low == {Shl32(<<0, m>>, k) : m \in 0..MaxMant, k \in 0..31}
    IN  low \cup {Not32(w) : w \in low}

MathRequests ==
    [fn : {"div_ceil", "gws_mult"}, a : GwsRequests, b : LwsRequests]
    \cup [fn : {"nlpo2", "ones32", "tzc"}, x : WordRequests]

InitMath ==
    /\ clo_types = clo_types_table
    /\ op = "request"
    /\ arg \in MathRequests
    /\ ret = <<>>
    /\ err = CLO_SUCCESS

DivCeil ==
    /\ op = "request" /\ arg.fn = "div_ceil"
    /\ op' = "ceil_div"
    /\ ret' = CLO_DIV_CEIL(arg.a, arg.b)
    /\ UNCHANGED <<clo_types, arg, err>>

GwsMult ==
    /\ op = "request" /\ arg.fn = "gws_mult"
    /\ op' = "round_up_worksize"
    /\ ret' = CLO_GWS_MULT(arg.a, arg.b)
    /\ UNCHANGED <<clo_types, arg, err>>

Nlpo2 ==
    /\ op = "request" /\ arg.fn = "nlpo2"
    /\ op' = "next_pow2"
    /\ ret' = clo_nlpo2(arg.x)
    /\ UNCHANGED <<clo_types, arg, err>>

Ones32 ==
    /\ op = "request" /\ arg.fn = "ones32"
    /\ op' = "popcount"
    /\ ret' = clo_ones32(arg.x)
    /\ UNCHANGED <<clo_types, arg, err>>

Tzc ==
    /\ op = "request" /\ arg.fn = "tzc"
    /\ op' = "trailing_zero_count"
    /\ ret' = clo_tzc(arg.x)
    /\ UNCHANGED <<clo_types, arg, err>>

NextMath == DivCeil \/ GwsMult \/ Nlpo2 \/ Ones32 \/ Tzc

SpecMath == InitMath /\ [][NextMath]_vars

(***************************** arithmetic properties ***********************)
\* Bit k of a 32-bit value.
Bit(x, k) ==
    IF k < 16 THEN (x[2] \div 2 ^ k) % 2 ELSE (x[1] \div 2 ^ (k - 16)) % 2

\* The 32-bit value 2^k, k in 0..31.
Pow2(k) == IF k < 16 THEN <<0, 2 ^ k>> ELSE <<2 ^ (k - 16), 0>>

IsPow2(x) == \E k \in 0..31 : x = Pow2(k)

\* C1: round_up_worksize(g, l) = r with r >= g, r % l = 0 and r < g + l,
\* for every g >= 0 and l > 0 of the operand type.
RoundUpWorksize ==
    op = "round_up_worksize" =>
        /\ Le32(arg.a, ret)
        /\ Mod32(ret, arg.b) = Zero32
        /\ Lt32(Sub32(ret, arg.a), arg.b)

\* C8: for every x > 0, next_pow2(x) is the smallest power of two >= x.
NextPow2Smallest ==
    op = "next_pow2" /\ arg.x # Zero32 =>
        /\ IsPow2(ret)
        /\ Le32(arg.x, ret)
        /\ ret = One32 \/ Lt32(Shr32(ret, 1), arg.x)

\* C9: for every x # 0, trailing_zero_count(x) is the index of the lowest
\* set bit of x; for x = 2^k, k in 0..31, it is k.
TzcLowestSetBit ==
    op = "trailing_zero_count" /\ arg.x # Zero32 =>
        /\ ret[1] = 0
        /\ ret[2] \in 0..31
        /\ Bit(arg.x, ret[2]) = 1
        /\ \A j \in 0..(ret[2] - 1) : Bit(arg.x, j) = 0
        /\ \A k \in 0..31 : arg.x = Pow2(k) => ret = <<0, k>>

TzcLowestSetBitWitness ==
    /\ op = "trailing_zero_count"
    /\ arg.x = Pow2(31)
    /\ ret = <<0, 31>>

=============================================================================
